---- MODULE Spec2Model ----
(***************************************************************************)
(* Membership-period ledger of the gym backend: the request handlers that  *)
(* create periods (enrolment, renewal, Day Pass purchase, check-in,        *)
(* recorded transactions), the member cache they maintain, and the date    *)
(* arithmetic they use.                                                    *)
(*                                                                         *)
(* An instant is a record [day, ms]: day is the local calendar day counted *)
(* from 1 January of BaseYear, ms the milliseconds since local midnight.   *)
(* This is the decomposition the JavaScript Date setters used by the code  *)
(* (setHours, setDate, setMonth) work on.  Fields the handlers copy but    *)
(* never read when computing periods (name, email, notes text, amounts) are *)
(* left out of the records.                                                *)
(***************************************************************************)
EXTENDS Integers, Sequences, FiniteSets, TLC

\* ------------------------------------------------------------------ bounds
MaxMembers == 1          \* member rows ever created
MaxPeriods == 3          \* membership periods ever created
MaxPackages == 3         \* package rows ever created
MaxInflight == 2         \* renewals between their history read and their commit
FirstDay == 30           \* the clock starts on 31 January
MaxDay == 31             \* the last day the clock reaches
MaxHistory == 3          \* rows a history request fetches
MaxCalls == 2            \* calls of analyzeMembershipPattern on one array

\* ------------------------------------------------------- program constants
BaseYear == 2025
EndOfDayMs == 86399999   \* setHours(23, 59, 59, 999)

\* ------------------------------------------------------------- the calendar
IsLeap(y) == (y % 4 = 0 /\ y % 100 # 0) \/ y % 400 = 0

\* Days of month index mi (0 = January of BaseYear; negative before it).
DaysInMonth(mi) ==
    LET y == BaseYear + (mi \div 12)
        m == mi % 12
    IN  IF m = 1 THEN (IF IsLeap(y) THEN 29 ELSE 28)
        ELSE IF m \in {3, 5, 8, 10} THEN 30 ELSE 31

RECURSIVE MonthStartRec(_)
MonthStartRec(mi) ==
    IF mi = 0 THEN 0
    ELSE IF mi > 0 THEN MonthStartRec(mi - 1) + DaysInMonth(mi - 1)
    ELSE MonthStartRec(mi + 1) - DaysInMonth(mi)

\* The months and days the calendar is tabulated for.
MonthRange == -13..24
MonthStartTable == [mi \in -13..25 |-> MonthStartRec(mi)]

\* Day number of the first day of month index mi.
MonthStart(mi) == MonthStartTable[mi]

DayRange == MonthStart(-13)..(MonthStart(25) - 1)
MonthOfTable ==
    [d \in DayRange |->
        CHOOSE mi \in MonthRange : MonthStart(mi) <= d /\ d < MonthStart(mi + 1)]

\* getMonth() with the year folded in: the month index a day lies in.
MonthOf(d) == MonthOfTable[d]

\* getDate(): the day of the month, 1-based.
DateOf(d) == d - MonthStart(MonthOf(d)) + 1

\* ------------------------------------------------------------------ instants
Lt(a, b) == a.day < b.day \/ (a.day = b.day /\ a.ms < b.ms)
Gt(a, b) == Lt(b, a)
Le(a, b) == ~Lt(b, a)
Ge(a, b) == ~Lt(a, b)

\* d.setHours(0, 0, 0, 0)
StartOfDay(t) == [day |-> t.day, ms |-> 0]

\* d.setHours(23, 59, 59, 999)
EndOfDay(t) == [day |-> t.day, ms |-> EndOfDayMs]

\* d.setDate(d.getDate() + 1)
PlusOneDay(t) == [day |-> t.day + 1, ms |-> t.ms]

\* d.setMonth(d.getMonth() + n): the date is rebuilt from (month + n, getDate()),
\* a day-of-month the target month lacks running over into the month after it.
SetMonthPlus(t, n) ==
    [day |-> MonthStart(MonthOf(t.day) + n) + DateOf(t.day) - 1, ms |-> t.ms]

\* d.setDate(d.getDate() + 1); d.setHours(0, 0, 0, 0)
NextDayMidnight(t) == StartOfDay(PlusOneDay(t))

\* d.setMonth(d.getMonth() + n) as each handler that builds a regular end date calls it.
AddMonths(t, n) == SetMonthPlus(t, n)

\* ---------------------------------------------------------------- the state
VARIABLES
    now,       \* the clock new Date() reads
    db,        \* the store: member, membershipPeriod, transaction, membershipPackage, counters
    inflight,  \* renewals that computed their dates and have not committed
    last,      \* the last request handled: what it read and what it wrote
    hist       \* a history request: the rows fetched, the array as it is, the analytics

vars == <<now, db, inflight, last, hist>>

\* No instant: the start_date of a request that reads none.
NoDate == [day |-> 0, ms |-> -1]
NoLast == [op |-> "none", memberId |-> 0, stale |-> FALSE, start_date |-> NoDate]
NoHist == [fetched |-> <<>>, membershipPeriods |-> <<>>, analytics |-> <<>>]

\* The seeded packages: the Day Pass and the monthly row (the 3-, 6- and 12-month
\* rows differ from the monthly one only in the number of months).  Payment
\* methods are seeded too and every paymentMethodId sent is one of them.
SeedPackages ==
    {[id |-> 1, name |-> "Day Pass", durationMonths |-> 0, price |-> 25000,
      isActive |-> TRUE],
     [id |-> 2, name |-> "Bulanan", durationMonths |-> 1, price |-> 150000,
      isActive |-> TRUE]}

\* ---------------------------------------------------------------- the inputs
Phones == {"none", "0811"}
\* membership_type with duration_months, as the enrolment form sends them.
EnrolInputs ==
    {[type |-> "Day Pass", dur |-> 0], [type |-> "Bulanan", dur |-> 1],
     [type |-> "Bulanan", dur |-> -1]}
\* start_date values of PUT /members/:id, and transactionDate values other than
\* the default of POST /transactions.
EditDates == {[day |-> 30, ms |-> 0]}
BackDates == {[day |-> 0, ms |-> 79200000]}
\* name, durationMonths, price and isActive of a package request body.  A numeric
\* field arrives as a JSON number or as the decimal string a form field holds, or
\* is left out; "" is a name left out, 0 a price left out.
PackageNames == {"Promo"}
PackageDurations ==
    {[kind |-> "number", n |-> -1], [kind |-> "number", n |-> 0],
     [kind |-> "string", n |-> 0]}
Undefined == [kind |-> "undefined", n |-> 0]
UpdateNames == {"", "Day Pass", "Promo"}
UpdateDurations == PackageDurations \cup {Undefined}
Prices == {0, 30000}
IsActiveInputs == {"undefined", "true", "false"}
TimesOfDay == {79200000}
\* start_date / transactionDate values: 1 January 22:00 and 31 January 00:00.
StartDates == {[day |-> 0, ms |-> 79200000], [day |-> 30, ms |-> 0]}

\* ------------------------------------------------------------ store queries
PeriodsOf(d, id) == {p \in d.membershipPeriod : p.memberId = id}

\* A ledger scan that trusts the newest row instead of comparing the end dates.
LatestEndDate_Newest(ps) == (CHOOSE p \in ps : \A q \in ps : q.id <= p.id).endDate

\* allPeriods.reduce((latest, period) => periodEnd > latest ? periodEnd : latest, ...)
LatestEndDate(ps) == (CHOOSE p \in ps : \A q \in ps : Le(q.endDate, p.endDate)).endDate

\* prisma.member.findFirst({ where: { phone } }): 0 when there is none.
MemberByPhone(d, phone) ==
    IF phone # "none" /\ \E id \in DOMAIN d.member : d.member[id].phone = phone
    THEN CHOOSE id \in DOMAIN d.member : d.member[id].phone = phone
    ELSE 0

\* ------------------------------------------------------------- store writes
NewMember(d, phone, type, sd, ed) ==
    [d EXCEPT !.member = [id \in DOMAIN d.member \cup {d.nextMemberId} |->
                            IF id = d.nextMemberId
                            THEN [phone |-> phone, membershipType |-> type,
                                  startDate |-> sd, endDate |-> ed, isActive |-> TRUE]
                            ELSE d.member[id]],
              !.nextMemberId = d.nextMemberId + 1]

\* transactionDate is the store's default now() unless the request sets it; notes
\* keeps which handler wrote the row ("renewal", "initial", "additional",
\* "checkin", "none" for null).
NewTransaction(d, memberId, pkg, date, notes) ==
    [d EXCEPT !.transaction = d.transaction \cup
                {[id |-> d.nextTxId, memberId |-> memberId, packageId |-> pkg.id,
                  packageName |-> pkg.name, packageDuration |-> pkg.durationMonths,
                  transactionDate |-> date, notes |-> notes]},
              !.nextTxId = d.nextTxId + 1]

\* An insert that also marks the member's earlier periods as expired.
NewPeriod_ExpireOlder(d, memberId, sd, ed, name, dur, txId) ==
    [d EXCEPT !.membershipPeriod =
                {IF p.memberId = memberId THEN [p EXCEPT !.status = "expired"] ELSE p :
                     p \in d.membershipPeriod}
                \cup
                {[id |-> d.nextPeriodId, memberId |-> memberId, startDate |-> sd,
                  endDate |-> ed, packageName |-> name, duration |-> dur,
                  status |-> "active", transactionId |-> txId]},
              !.nextPeriodId = d.nextPeriodId + 1]

NewPeriod(d, memberId, sd, ed, name, dur, txId) ==
    [d EXCEPT !.membershipPeriod = d.membershipPeriod \cup
                {[id |-> d.nextPeriodId, memberId |-> memberId, startDate |-> sd,
                  endDate |-> ed, packageName |-> name, duration |-> dur,
                  status |-> "active", transactionId |-> txId]},
              !.nextPeriodId = d.nextPeriodId + 1]

\* A member update that keeps the end date already on the row when it is later.
SetMemberDates_KeepLater(d, id, type, sd, ed) ==
    IF Gt(d.member[id].endDate, ed)
    THEN [d EXCEPT !.member[id].isActive = TRUE]
    ELSE [d EXCEPT !.member[id].membershipType = type,
                   !.member[id].startDate = sd,
                   !.member[id].endDate = ed,
                   !.member[id].isActive = TRUE]

SetMemberDates(d, id, type, sd, ed) ==
    [d EXCEPT !.member[id].membershipType = type,
              !.member[id].startDate = sd,
              !.member[id].endDate = ed,
              !.member[id].isActive = TRUE]

\* A transaction that does not roll back: the writes before the failing one stay.
Atomically_NoRollback(states, failAt) ==
    IF failAt = 0 \/ failAt >= Len(states) THEN states[Len(states)] ELSE states[failAt]

\* prisma.$transaction(fn): states[1] is the store before fn, states[k + 1] the
\* store after its k-th write.  failAt = 0: no write throws and the last state
\* commits; failAt = k: the k-th write throws and everything is rolled back.
Atomically(states, failAt) ==
    IF failAt = 0 \/ failAt >= Len(states) THEN states[Len(states)] ELSE states[1]

\* What a request that changed the store leaves in `last`; a request that wrote
\* nothing leaves no trace.
Done(op, id, before, after, stale) ==
    IF after = before THEN last
    ELSE [op |-> op, memberId |-> id, stale |-> stale, start_date |-> NoDate]

\* The same for an enrolment, with the start_date the handler read.
DoneEnrol(op, id, before, after, start_date) ==
    IF after = before THEN last
    ELSE [op |-> op, memberId |-> id, stale |-> FALSE, start_date |-> start_date]

\* ------------------------------------------------------------------- Init
Init ==
    /\ \E t \in TimesOfDay : now = [day |-> FirstDay, ms |-> t]
    /\ db = [member |-> <<>>, membershipPeriod |-> {}, transaction |-> {},
             membershipPackage |-> SeedPackages,
             nextMemberId |-> 1, nextPeriodId |-> 1, nextTxId |-> 1, nextPackageId |-> 3]
    /\ inflight = <<>>
    /\ last = NoLast
    /\ hist = NoHist

\* Time passes: the clock moves to a later instant.
Tick ==
    /\ \E d \in FirstDay..MaxDay, t \in TimesOfDay :
          /\ Gt([day |-> d, ms |-> t], now)
          /\ d <= now.day + 1
          /\ now' = [day |-> d, ms |-> t]
    /\ UNCHANGED <<db, inflight, last, hist>>

\* ---------------------------------------------------------- POST /members
\* An enrolment that snaps the start to the midnight of its day.
CreateMemberSteps_Snapped(d, phone, type, sd, dur) ==
    LET startDate == StartOfDay(sd)
        endDate == IF dur = 0 THEN EndOfDay(sd) ELSE AddMonths(startDate, dur)
        s1 == NewMember(d, phone, type, startDate, endDate)
        s2 == NewPeriod(s1, d.nextMemberId, startDate, endDate, type, dur, 0)
    IN  <<d, s1, s2>>

CreateMemberSteps(d, phone, type, sd, dur) ==
    LET startDate == sd
        endDate == IF dur = 0 THEN EndOfDay(sd) ELSE AddMonths(sd, dur)
        s1 == NewMember(d, phone, type, startDate, endDate)
        s2 == NewPeriod(s1, d.nextMemberId, startDate, endDate, type, dur, 0)
    IN  <<d, s1, s2>>

CreateMember ==
    \E phone \in Phones, e \in EnrolInputs, sd \in StartDates, failAt \in 0..2 :
        /\ db.nextMemberId <= MaxMembers
        /\ db.nextPeriodId <= MaxPeriods
        /\ MemberByPhone(db, phone) = 0
        /\ db' = Atomically(CreateMemberSteps(db, phone, e.type, sd, e.dur), failAt)
        /\ last' = DoneEnrol("create", db.nextMemberId, db, db', sd)
        /\ UNCHANGED <<now, inflight, hist>>

\* ------------------------------------------------- POST /members/:id/renew
\* A renewal that anchors regular packages on the member row's endDate, as the
\* fallback branch does, instead of on the ledger.
RenewDates_MemberAnchor(member, pkg, allPeriods, t) ==
    LET currentEndDate == member.endDate
        fromMember == IF Gt(currentEndDate, t) THEN PlusOneDay(currentEndDate) ELSE t
    IN  IF pkg.durationMonths = 0
        THEN LET newStartDate ==
                     IF allPeriods # {}
                     THEN NextDayMidnight(LatestEndDate(allPeriods))
                     ELSE StartOfDay(fromMember)
             IN  [startDate |-> newStartDate, endDate |-> EndOfDay(newStartDate)]
        ELSE [startDate |-> fromMember,
              endDate |-> AddMonths(fromMember, pkg.durationMonths)]

\* The dates a renewal computes from the member row and the periods it read.
RenewDates(member, pkg, allPeriods, t) ==
    LET currentEndDate == member.endDate
        fromMember == IF Gt(currentEndDate, t) THEN PlusOneDay(currentEndDate) ELSE t
    IN  IF pkg.durationMonths = 0
        THEN LET newStartDate ==
                     IF allPeriods # {}
                     THEN NextDayMidnight(LatestEndDate(allPeriods))
                     ELSE StartOfDay(fromMember)
             IN  [startDate |-> newStartDate, endDate |-> EndOfDay(newStartDate)]
        ELSE LET newStartDate ==
                     IF allPeriods # {}
                     THEN IF Gt(LatestEndDate(allPeriods), t)
                          THEN NextDayMidnight(LatestEndDate(allPeriods))
                          ELSE t
                     ELSE fromMember
             IN  [startDate |-> newStartDate,
                  endDate |-> AddMonths(newStartDate, pkg.durationMonths)]

RenewSteps(d, id, pkg, dates, t) ==
    LET s1 == NewTransaction(d, id, pkg, t, "renewal")
        s2 == NewPeriod(s1, id, dates.startDate, dates.endDate, pkg.name,
                        pkg.durationMonths, d.nextTxId)
        s3 == SetMemberDates(s2, id, pkg.name, dates.startDate, dates.endDate)
    IN  <<d, s1, s2, s3>>

\* One renewal handled with no other request in between.
Renew ==
    \E id \in DOMAIN db.member, k \in db.membershipPackage, failAt \in 0..3 :
        /\ db.nextPeriodId <= MaxPeriods
        /\ LET dates == RenewDates(db.member[id], k, PeriodsOf(db, id), now)
           IN  db' = Atomically(RenewSteps(db, id, k, dates, now), failAt)
        /\ last' = Done("renew", id, db, db', FALSE)
        /\ UNCHANGED <<now, inflight, hist>>

\* ------------------------------------- POST /members/with-transaction
\* The start of a Day Pass bought through enrolment, inside the transaction.
EnrolDayPassStart(d, existing, t) ==
    IF existing # 0
    THEN LET allPeriods == PeriodsOf(d, existing)
             memberEndDate == d.member[existing].endDate
         IN  IF allPeriods # {}
             THEN NextDayMidnight(LatestEndDate(allPeriods))
             ELSE IF Gt(memberEndDate, t)
                  THEN NextDayMidnight(memberEndDate)
                  ELSE StartOfDay(t)
    ELSE StartOfDay(t)

\* An enrolment that sells any product to the member who already has the phone.
EnrolSteps_NoConflict(d, phone, type, sd, dur, pkg, t) ==
    LET existing == MemberByPhone(d, phone) IN
    IF existing # 0
    THEN LET s1 == [d EXCEPT !.member[existing].isActive = TRUE]
             s2 == NewTransaction(s1, existing, pkg, t, "additional")
             periodStartDate == IF dur = 0 THEN EnrolDayPassStart(s2, existing, t) ELSE sd
             periodEndDate == IF dur = 0 THEN EndOfDay(periodStartDate)
                              ELSE AddMonths(sd, dur)
             s3 == NewPeriod(s2, existing, periodStartDate, periodEndDate, type, dur,
                             d.nextTxId)
             s4 == SetMemberDates(s3, existing, type, periodStartDate, periodEndDate)
         IN  <<d, s1, s2, s3, s4>>
    ELSE LET startDate == IF dur = 0 THEN t ELSE sd
             endDate == IF dur = 0 THEN t ELSE AddMonths(sd, dur)
             s1 == NewMember(d, phone, type, startDate, endDate)
             s2 == NewTransaction(s1, d.nextMemberId, pkg, t, "initial")
             periodStartDate == IF dur = 0 THEN StartOfDay(t) ELSE startDate
             periodEndDate == IF dur = 0 THEN EndOfDay(periodStartDate) ELSE endDate
             s3 == NewPeriod(s2, d.nextMemberId, periodStartDate, periodEndDate, type,
                             dur, d.nextTxId)
         IN  <<d, s1, s2, s3>>

EnrolSteps(d, phone, type, sd, dur, pkg, t) ==
    LET existing == MemberByPhone(d, phone) IN
    IF existing # 0 /\ dur = 0
    THEN LET s1 == [d EXCEPT !.member[existing].isActive = TRUE]
             s2 == NewTransaction(s1, existing, pkg, t, "additional")
             periodStartDate == EnrolDayPassStart(s2, existing, t)
             periodEndDate == EndOfDay(periodStartDate)
             s3 == NewPeriod(s2, existing, periodStartDate, periodEndDate, type, dur,
                             d.nextTxId)
             s4 == SetMemberDates(s3, existing, type, periodStartDate, periodEndDate)
         IN  <<d, s1, s2, s3, s4>>
    ELSE IF existing # 0
    THEN \* MEMBER_EXISTS_WITH_PHONE, or the unique phone refusing member.create
         <<d>>
    ELSE LET startDate == IF dur = 0 THEN t ELSE sd
             endDate == IF dur = 0 THEN t ELSE AddMonths(sd, dur)
             s1 == NewMember(d, phone, type, startDate, endDate)
             s2 == NewTransaction(s1, d.nextMemberId, pkg, t, "initial")
             periodStartDate == IF dur = 0 THEN StartOfDay(t) ELSE startDate
             periodEndDate == IF dur = 0 THEN EndOfDay(periodStartDate) ELSE endDate
             s3 == NewPeriod(s2, d.nextMemberId, periodStartDate, periodEndDate, type,
                             dur, d.nextTxId)
         IN  <<d, s1, s2, s3>>

CreateMemberWithTransaction ==
    \E phone \in Phones, e \in EnrolInputs, sd \in StartDates,
       k \in db.membershipPackage, failAt \in 0..4 :
        /\ k.durationMonths = e.dur
        /\ db.nextPeriodId <= MaxPeriods
        /\ MemberByPhone(db, phone) = 0 => db.nextMemberId <= MaxMembers
        /\ db' = Atomically(EnrolSteps(db, phone, e.type, sd, e.dur, k, now), failAt)
        /\ last' = DoneEnrol("enrol", IF MemberByPhone(db, phone) = 0 THEN db.nextMemberId
                                      ELSE MemberByPhone(db, phone), db, db',
                             IF e.dur = 0 THEN NoDate ELSE sd)
        /\ UNCHANGED <<now, inflight, hist>>

\* ------------------------------------------------------- PUT /members/:id
UpdateMember ==
    \E id \in DOMAIN db.member, e \in EnrolInputs, sd \in EditDates,
       is_active \in BOOLEAN :
        \E phone \in {db.member[id].phone} :
        /\ MemberByPhone(db, phone) \in {0, id}
        /\ db' = [db EXCEPT !.member[id] =
                     [phone |-> phone, membershipType |-> e.type, startDate |-> sd,
                      endDate |-> AddMonths(sd, e.dur), isActive |-> is_active]]
        /\ last' = Done("update", id, db, db', FALSE)
        /\ UNCHANGED <<now, inflight, hist>>

\* ---------------------------------------------------- DELETE /members/:id
\* deleteMany on the periods, deleteMany on the transactions, then member.delete,
\* which throws P2025 when there is no such member.
DeleteMemberSteps(d, memberId) ==
    LET s1 == [d EXCEPT !.membershipPeriod = {p \in @ : p.memberId # memberId}]
        s2 == [s1 EXCEPT !.transaction = {t \in @ : t.memberId # memberId}]
        s3 == [s2 EXCEPT !.member = [id \in DOMAIN @ \ {memberId} |-> @[id]]]
    IN  <<d, s1, s2, s3>>

DeleteMember ==
    \E memberId \in 1..MaxMembers, failAt \in 0..3 :
        /\ db' = Atomically(DeleteMemberSteps(db, memberId),
                            IF memberId \in DOMAIN db.member THEN failAt ELSE 3)
        /\ last' = Done("delete", memberId, db, db', FALSE)
        /\ UNCHANGED <<now, inflight, hist>>

\* ---------------------------------------------------------- POST /checkin
\* The expiry test a check-in applies to the member row.
CheckinExpired(member, t) ==
    IF member.membershipType = "Day Pass"
    THEN Lt(StartOfDay(member.endDate), StartOfDay(t))
    ELSE Lt(member.endDate, t)

CheckinSteps(d, id, dayPassPackage, t) ==
    LET allPeriods == {p \in PeriodsOf(d, id) : p.status = "active"}
        memberEndDate == d.member[id].endDate
        dayPassStart ==
            StartOfDay(IF allPeriods # {}
                       THEN PlusOneDay(LatestEndDate(allPeriods))
                       ELSE IF Gt(memberEndDate, t) THEN PlusOneDay(memberEndDate)
                            ELSE t)
        dayPassEnd == EndOfDay(dayPassStart)
        s1 == NewTransaction(d, id, dayPassPackage, t, "checkin")
        s2 == NewPeriod(s1, id, dayPassStart, dayPassEnd, dayPassPackage.name, 0,
                        d.nextTxId)
    IN  <<d, s1, s2>>

\* A check-in with createDayPass set (a plain check-in writes nothing).
Checkin ==
    \E id \in DOMAIN db.member, failAt \in 0..2 :
        /\ db.nextPeriodId <= MaxPeriods
        /\ db.member[id].isActive
        /\ ~CheckinExpired(db.member[id], now)
        /\ \E k \in db.membershipPackage : k.name = "Day Pass" /\ k.durationMonths = 0
        /\ LET dayPassPackage ==
                   CHOOSE k \in db.membershipPackage :
                       k.name = "Day Pass" /\ k.durationMonths = 0
           IN  db' = Atomically(CheckinSteps(db, id, dayPassPackage, now), failAt)
        /\ last' = Done("checkin", id, db, db', FALSE)
        /\ UNCHANGED <<now, inflight, hist>>

\* ------------------------------------------------------ POST /transactions
TransactionSteps(d, memberId, pkg, transactionDate) ==
    LET s1 == NewTransaction(d, memberId, pkg, transactionDate, "none")
        startDate == transactionDate
        endDate == AddMonths(startDate, pkg.durationMonths)
        s2 == NewPeriod(s1, memberId, startDate, endDate, pkg.name, pkg.durationMonths,
                        d.nextTxId)
    IN  <<d, s1, s2>>

CreateTransaction ==
    \E memberId \in DOMAIN db.member, k \in db.membershipPackage,
       transactionDate \in {now} \cup BackDates, failAt \in 0..2 :
        /\ db.nextPeriodId <= MaxPeriods
        /\ db' = Atomically(TransactionSteps(db, memberId, k, transactionDate), failAt)
        /\ last' = Done("transaction", memberId, db, db', FALSE)
        /\ UNCHANGED <<now, inflight, hist>>

\* --------------------------------------------------------- POST /packages
\* !v of a numeric field: false for a value left out and for the number 0, true
\* for every other number and for every non-empty string, "0" included.
Truthy(v) == v.kind = "string" \/ (v.kind = "number" /\ v.n # 0)

\* parseInt(v) of a number or of its decimal string.
ParseInt(v) == v.n

CreatePackage ==
    \E name \in PackageNames, durationMonths \in PackageDurations, price \in Prices :
        /\ db.nextPackageId <= MaxPackages
        /\ name # "" /\ Truthy(durationMonths) /\ price # 0
        /\ db' = [db EXCEPT !.membershipPackage = db.membershipPackage \cup
                               {[id |-> db.nextPackageId, name |-> name,
                                 durationMonths |-> ParseInt(durationMonths),
                                 price |-> price, isActive |-> TRUE]},
                            !.nextPackageId = db.nextPackageId + 1]
        /\ last' = Done("package", 0, db, db', FALSE)
        /\ UNCHANGED <<now, inflight, hist>>

\* ------------------------------------------------------ PUT /packages/:id
IsDayPass(k) == k.name = "Day Pass" \/ k.durationMonths = 0

\* An update with no Day Pass branch: every package is rewritten from the body.
UpdatedPackage_Unprotected(existingPackage, name, durationMonths, price, isActive) ==
    IF name = "" \/ ~Truthy(durationMonths) \/ price = 0
    THEN existingPackage
    ELSE [id |-> existingPackage.id, name |-> name,
          durationMonths |-> ParseInt(durationMonths), price |-> price,
          isActive |-> isActive # "false"]

\* The row the update leaves: the row as it was when the request is refused
\* (400 or 403), the rewritten row otherwise.
UpdatedPackage(existingPackage, name, durationMonths, price, isActive) ==
    IF IsDayPass(existingPackage)
    THEN IF price = 0
         THEN existingPackage
         ELSE IF name # "" /\ name # existingPackage.name
         THEN existingPackage
         ELSE IF durationMonths # Undefined
                 /\ ParseInt(durationMonths) # existingPackage.durationMonths
         THEN existingPackage
         ELSE [existingPackage EXCEPT
                   !.price = price,
                   !.isActive = IF isActive = "undefined" THEN @ ELSE isActive = "true"]
    ELSE IF name = "" \/ ~Truthy(durationMonths) \/ price = 0
         THEN existingPackage
         ELSE [id |-> existingPackage.id, name |-> name,
               durationMonths |-> ParseInt(durationMonths), price |-> price,
               isActive |-> isActive # "false"]

\* A request for an id with no row is answered 404 and writes nothing.
UpdatePackage ==
    \E id \in 1..MaxPackages, name \in UpdateNames, durationMonths \in UpdateDurations,
       price \in Prices, isActive \in IsActiveInputs :
        /\ db' = [db EXCEPT !.membershipPackage =
                     {IF k.id = id
                      THEN UpdatedPackage(k, name, durationMonths, price, isActive)
                      ELSE k : k \in @}]
        /\ last' = Done("package", 0, db, db', FALSE)
        /\ UNCHANGED <<now, inflight, hist>>

\* --------------------------------------------------- DELETE /packages/:id
\* 403 for a Day Pass; a package some transaction names is deactivated, one that
\* no transaction names is deleted.
DeletedPackage(d, packageToDelete) ==
    IF packageToDelete.name = "Day Pass" \/ packageToDelete.durationMonths = 0
    THEN {packageToDelete}
    ELSE IF \E t \in d.transaction : t.packageId = packageToDelete.id
    THEN {[packageToDelete EXCEPT !.isActive = FALSE]}
    ELSE {}

DeletePackage ==
    \E id \in 1..MaxPackages :
        /\ db' = [db EXCEPT !.membershipPackage =
                     UNION {IF k.id = id THEN DeletedPackage(db, k) ELSE {k} : k \in @}]
        /\ last' = Done("package", 0, db, db', FALSE)
        /\ UNCHANGED <<now, inflight, hist>>

\* ------------------------------------------------- status and days remaining
\* Math.ceil((a - b) / (1000 * 60 * 60 * 24))
CeilDays(a, b) == (a.day - b.day) + (IF a.ms > b.ms THEN 1 ELSE 0)

\* new Date(t.getTime() + 7 * 24 * 60 * 60 * 1000)
SevenDaysFrom(t) == [day |-> t.day + 7, ms |-> t.ms]

\* findMany({ where: { memberId, status: 'active', endDate: { gt: now } } })
ActivePeriods(d, id, t) ==
    {p \in PeriodsOf(d, id) : p.status = "active" /\ Gt(p.endDate, t)}

\* What one period adds to totalDays.  currentDate is set to now before the loop
\* and never assigned in it, so the sum does not depend on the sort order.
DaysInPeriod(p, currentDate) ==
    IF Gt(p.startDate, currentDate)
    THEN CeilDays(p.endDate, p.startDate) + 1
    ELSE IF Gt(p.endDate, currentDate)
         THEN CeilDays(p.endDate, currentDate)
         ELSE 0

RECURSIVE TotalDays(_, _)
TotalDays(ps, currentDate) ==
    IF ps = {} THEN 0
    ELSE LET p == CHOOSE q \in ps : TRUE
         IN  DaysInPeriod(p, currentDate) + TotalDays(ps \ {p}, currentDate)

\* totalRemainingDays of POST /members/search and of POST /checkin: the sum over
\* the unexpired periods, or the distance to the member row's endDate when there
\* is none.
TotalRemainingDays(d, id, t) ==
    IF ActivePeriods(d, id, t) # {}
    THEN TotalDays(ActivePeriods(d, id, t), t)
    ELSE CeilDays(d.member[id].endDate, t)

\* daysRemaining: Math.max(0, totalRemainingDays)
DaysRemaining(d, id, t) ==
    IF TotalRemainingDays(d, id, t) > 0 THEN TotalRemainingDays(d, id, t) ELSE 0

\* A Day Pass test that already expires the pass on the day it ends.
ListExpired_Inclusive(member, t) ==
    IF member.membershipType = "Day Pass"
    THEN Le(StartOfDay(member.endDate), StartOfDay(t))
    ELSE Lt(member.endDate, t)

\* isExpired of GET /members.
ListExpired(member, t) ==
    IF member.membershipType = "Day Pass"
    THEN Lt(StartOfDay(member.endDate), StartOfDay(t))
    ELSE Lt(member.endDate, t)

\* status of GET /members.
ListStatus(d, id, t) ==
    IF ListExpired(d.member[id], t) THEN "expired"
    ELSE IF Le(d.member[id].endDate, SevenDaysFrom(t)) THEN "expiring_soon"
    ELSE "active"

\* The status values GET /members filters on.
StatusFilters == {"expired", "expiring_soon", "active"}

\* whereClause.endDate of GET /members: whether the member matches the filter.
ListFilter(member, status, t) ==
    IF status = "expired" THEN Lt(member.endDate, t)
    ELSE IF status = "expiring_soon"
    THEN Ge(member.endDate, t) /\ Le(member.endDate, SevenDaysFrom(t))
    ELSE IF status = "active" THEN Gt(member.endDate, SevenDaysFrom(t))
    ELSE TRUE

\* isExpired of POST /members/search.
SearchExpired(d, id, t) ==
    IF d.member[id].membershipType = "Day Pass"
    THEN Lt(StartOfDay(d.member[id].endDate), StartOfDay(t))
    ELSE Lt(d.member[id].endDate, t) /\ TotalRemainingDays(d, id, t) <= 0

\* status of POST /members/search.
SearchStatus(d, id, t) ==
    IF SearchExpired(d, id, t) THEN "expired"
    ELSE IF Le(d.member[id].endDate, SevenDaysFrom(t))
            /\ TotalRemainingDays(d, id, t) <= 7
    THEN "expiring_soon"
    ELSE "active"

\* status of POST /checkin: 'expired' with the 403, else by expiringSoon.
CheckinStatus(d, id, t) ==
    IF CheckinExpired(d.member[id], t) THEN "expired"
    ELSE IF Le(d.member[id].endDate, SevenDaysFrom(t))
            /\ TotalRemainingDays(d, id, t) <= 7
    THEN "expiring_soon"
    ELSE "active"

\* ------------------------------------------------ analyzeMembershipPattern
\* Math.round(n / d) for d > 0: the nearest integer, a half going up.
Round(n, d) == (2 * n + d) \div (2 * d)

\* The place of row p among rows s already in start order: behind every row
\* that does not start after it.
InsertByStart(p, s) ==
    LET k == Cardinality({i \in 1..Len(s) : Le(s[i].startDate, p.startDate)})
    IN  SubSeq(s, 1, k) \o <<p>> \o SubSeq(s, k + 1, Len(s))

\* periods.sort((a, b) => new Date(a.startDate) - new Date(b.startDate)): ascending
\* by start, rows with equal starts keeping their order.
RECURSIVE SortByStart(_)
SortByStart(s) ==
    IF s = <<>> THEN <<>>
    ELSE InsertByStart(s[Len(s)], SortByStart(SubSeq(s, 1, Len(s) - 1)))

\* The caller's array after the call: sort() reorders the array it is called on.
PeriodsAfterCall(periods) ==
    IF Len(periods) = 0 THEN periods ELSE SortByStart(periods)

RECURSIVE SumDurations(_)
SumDurations(s) ==
    IF s = <<>> THEN 0
    ELSE CeilDays(s[1].endDate, s[1].startDate) + SumDurations(Tail(s))

RECURSIVE SumAmounts(_)
SumAmounts(s) ==
    IF s = <<>> THEN 0
    ELSE (IF s[1].transaction # <<>> THEN s[1].transaction[1].amount ELSE 0)
         + SumAmounts(Tail(s))

\* The gap records, in order, for the adjacent pairs with gapDays > 0.
Gaps(sortedPeriods) ==
    LET gap(i) ==
            LET prevEnd == sortedPeriods[i].endDate
                currentStart == sortedPeriods[i + 1].startDate
            IN  [afterPeriod |-> i - 1, beforePeriod |-> i,
                 days |-> CeilDays(currentStart, prevEnd),
                 startDate |-> prevEnd, endDate |-> currentStart]
        isGap(g) == g.days > 0
    IN  SelectSeq([i \in 1..(Len(sortedPeriods) - 1) |-> gap(i)], isGap)

RECURSIVE SumGapDays(_)
SumGapDays(gaps) ==
    IF gaps = <<>> THEN 0 ELSE gaps[1].days + SumGapDays(Tail(gaps))

\* The object analyzeMembershipPattern(periods) returns.
AnalyzeMembershipPattern(periods) ==
    IF Len(periods) = 0
    THEN [totalPeriods |-> 0, totalDays |-> 0, totalSpent |-> 0,
          averageDuration |-> 0, gaps |-> <<>>, loyaltyScore |-> 0,
          membershipType |-> "new"]
    ELSE LET sortedPeriods == SortByStart(periods)
             totalDays == SumDurations(sortedPeriods)
             totalSpent == SumAmounts(sortedPeriods)
             gaps == Gaps(sortedPeriods)
             totalPeriods == Len(periods)
             totalGapDays == SumGapDays(gaps)
             loyaltyScore ==
                 (IF totalPeriods >= 3 THEN 30 ELSE 0)
                 + (IF totalGapDays < 30 THEN 25 ELSE 0)
                 + (IF totalDays > 30 * totalPeriods THEN 25 ELSE 0)
                 + (IF totalSpent > 1000000 THEN 20 ELSE 0)
             membershipType ==
                 IF totalPeriods >= 5 THEN "loyal"
                 ELSE IF totalPeriods >= 3 THEN "returning"
                 ELSE IF totalPeriods = 2 THEN "second_time"
                 ELSE "new"
         IN  [totalPeriods |-> totalPeriods, totalDays |-> totalDays,
              totalSpent |-> totalSpent,
              averageDuration |-> Round(totalDays, totalPeriods),
              gaps |-> gaps,
              loyaltyScore |-> IF loyaltyScore < 100 THEN loyaltyScore ELSE 100,
              membershipType |-> membershipType,
              averageGapDays |-> IF Len(gaps) > 0 THEN Round(totalGapDays, Len(gaps))
                                 ELSE 0]

\* ------------------------------------------------ GET /members/:id/history
\* Rows as findMany returns them with their transaction included (<<>> for
\* null): the two periods of January and February with their ends at midnight or
\* at 23:59:59.999, the Day Passes of 1 and 2 February, an enrolment period of
\* March with no transaction, and a monthly period from 26 March.
HistoryRows ==
    {[startDate |-> [day |-> 0, ms |-> 0], endDate |-> [day |-> 30, ms |-> e],
      transaction |-> <<[amount |-> 150000]>>] : e \in {0, EndOfDayMs}}
    \cup
    {[startDate |-> [day |-> 35, ms |-> 0], endDate |-> [day |-> 58, ms |-> e],
      transaction |-> <<[amount |-> 150000]>>] : e \in {0, EndOfDayMs}}
    \cup
    {[startDate |-> [day |-> d, ms |-> 0], endDate |-> [day |-> d, ms |-> EndOfDayMs],
      transaction |-> <<[amount |-> 25000]>>] : d \in {31, 32}}
    \cup
    {[startDate |-> [day |-> 59, ms |-> 0], endDate |-> [day |-> 90, ms |-> 0],
      transaction |-> <<>>],
     [startDate |-> [day |-> 84, ms |-> 0], endDate |-> [day |-> 115, ms |-> 0],
      transaction |-> <<[amount |-> 150000]>>]}

\* orderBy: { startDate: 'desc' } over distinct rows.
FetchedLists ==
    {s \in UNION {[1..n -> HistoryRows] : n \in 0..MaxHistory} :
        /\ \A i, j \in 1..Len(s) : i < j => s[i] # s[j]
        /\ \A i \in 1..(Len(s) - 1) : Ge(s[i].startDate, s[i + 1].startDate)}

InitHistory ==
    /\ \E t \in TimesOfDay : now = [day |-> FirstDay, ms |-> t]
    /\ db = [member |-> <<>>, membershipPeriod |-> {}, transaction |-> {},
             membershipPackage |-> SeedPackages,
             nextMemberId |-> 1, nextPeriodId |-> 1, nextTxId |-> 1, nextPackageId |-> 3]
    /\ inflight = <<>>
    /\ last = NoLast
    /\ \E s \in FetchedLists :
          hist = [fetched |-> s, membershipPeriods |-> s, analytics |-> <<>>]

\* One call analyzeMembershipPattern(membershipPeriods) on the handler's array.
AnalyzeHistory ==
    /\ Len(hist.analytics) < MaxCalls
    /\ hist' = [hist EXCEPT
                   !.analytics = Append(@, AnalyzeMembershipPattern(hist.membershipPeriods)),
                   !.membershipPeriods = PeriodsAfterCall(@)]
    /\ UNCHANGED <<now, db, inflight, last>>

\* ------------------------------------ POST /members/:id/renew, interleaved
\* The renewal up to its last read: the dates are computed from the member row
\* and the periods as they are now, before the transaction is opened.
RenewBegin ==
    \E id \in DOMAIN db.member, k \in db.membershipPackage :
        /\ Len(inflight) < MaxInflight
        /\ db.nextPeriodId + Len(inflight) <= MaxPeriods
        /\ inflight' = Append(inflight,
                          [memberId |-> id, pkg |-> k, at |-> now,
                           dates |-> RenewDates(db.member[id], k, PeriodsOf(db, id), now),
                           read |-> {p.id : p \in PeriodsOf(db, id)}])
        /\ UNCHANGED <<now, db, last, hist>>

\* The renewal's transaction, run on the store as it is when it commits.
RenewCommit ==
    \E i \in DOMAIN inflight, failAt \in 0..3 :
        LET r == inflight[i] IN
        /\ db' = Atomically(RenewSteps(db, r.memberId, r.pkg, r.dates, now), failAt)
        /\ inflight' = [j \in 1..(Len(inflight) - 1) |->
                           IF j < i THEN inflight[j] ELSE inflight[j + 1]]
        /\ last' = Done("renew", r.memberId, db, db',
                        r.read # {p.id : p \in PeriodsOf(db, r.memberId)})
        /\ UNCHANGED <<now, hist>>

Next ==
    \/ Tick
    \/ CreateMember
    \/ CreateMemberWithTransaction
    \/ UpdateMember
    \/ DeleteMember
    \/ Renew
    \/ Checkin
    \/ CreateTransaction
    \/ CreatePackage

Spec == Init /\ [][Next]_vars

\* Renewals whose history read and commit are separate steps, as the awaits
\* between them allow when two requests are served at once.
NextConc ==
    \/ Tick
    \/ CreateMember
    \/ RenewBegin
    \/ RenewCommit

SpecConc == Init /\ [][NextConc]_vars

\* The package administration, with the enrolments that make transactions name
\* a package; no other handler writes the package table.
NextPackages ==
    \/ CreatePackage
    \/ UpdatePackage
    \/ DeletePackage
    \/ CreateMemberWithTransaction

SpecPackages == Init /\ [][NextPackages]_vars

\* The history request on its own: the rows fetched, then the analytics calls.
NextHistory == AnalyzeHistory

SpecHistory == InitHistory /\ [][NextHistory]_vars

\* ================================================================ properties
\* The transaction a period is linked to.
TxOf(p) == CHOOSE t \in db.transaction : t.id = p.transactionId
Linked(p) == \E t \in db.transaction : t.id = p.transactionId

\* The member's ledger as it stood when p was written: rows are only appended,
\* with increasing ids.
Prior(p) == {q \in db.membershipPeriod : q.memberId = p.memberId /\ q.id < p.id}

\* The newest period of a member.
Newest(id) == CHOOSE p \in PeriodsOf(db, id) : \A q \in PeriodsOf(db, id) : q.id <= p.id

\* Day Pass periods bought by renewal, by enrolment on an existing phone or at
\* check-in, for a member who already had periods.  The transaction's date is the
\* instant of the purchase.
DayPassPurchases ==
    {p \in db.membershipPeriod :
        /\ p.duration = 0
        /\ Linked(p)
        /\ TxOf(p).notes \in {"renewal", "additional", "checkin"}
        /\ Prior(p) # {}}

MaxEnd(ps) == CHOOSE e \in {q.endDate : q \in ps} : \A q \in ps : Le(q.endDate, e)

\* C1: a Day Pass bought while the ledger's maximum end T is after the purchase
\* instant starts at midnight of the day after T and ends at 23:59:59.999 of that
\* day, however many periods there are and whichever of them holds T.
C1_DayPassAfterLatest ==
    \A p \in DayPassPurchases :
        LET T == MaxEnd(Prior(p)) IN
        Gt(T, TxOf(p).transactionDate) =>
            /\ p.startDate = [day |-> T.day + 1, ms |-> 0]
            /\ p.endDate = [day |-> T.day + 1, ms |-> 86399999]

\* C1 witness: a Day Pass was bought with two earlier periods in the ledger, the
\* maximum end being in the future and held by the older of the two.
C1_Witness ==
    \E p \in DayPassPurchases :
        /\ Cardinality(Prior(p)) >= 2
        /\ Gt(MaxEnd(Prior(p)), TxOf(p).transactionDate)
        /\ \E q \in Prior(p) :
              /\ q.endDate = MaxEnd(Prior(p))
              /\ \E r \in Prior(p) : r.id > q.id /\ Lt(r.endDate, q.endDate)

\* C2: a Day Pass bought when the ledger is not empty and its maximum end is not
\* after the purchase instant starts at the beginning of the day of purchase.
C2_DayPassStartsToday ==
    \A p \in DayPassPurchases :
        ~Gt(MaxEnd(Prior(p)), TxOf(p).transactionDate) =>
            p.startDate = StartOfDay(TxOf(p).transactionDate)

\* C3: every period of duration 0 ends at 23:59:59.999 of the day it starts.
C3_DayPassEndsSameDay ==
    \A p \in db.membershipPeriod :
        p.duration = 0 => p.endDate = [day |-> p.startDate.day, ms |-> 86399999]

\* C4: no two periods of a member overlap in time.
C4_NoOverlap ==
    \A p, q \in db.membershipPeriod :
        (p.memberId = q.memberId /\ p.id # q.id) =>
            ~(Lt(p.startDate, q.endDate) /\ Lt(q.startDate, p.endDate))

\* Periods written by a renewal.
Renewals == {p \in db.membershipPeriod : Linked(p) /\ TxOf(p).notes = "renewal"}

\* C5: a renewal commits on the ledger it read, so no two renewals of a member
\* produce periods with the same start.
C5_RenewalsAtomic ==
    /\ (last.op = "renew" => ~last.stale)
    /\ \A p, q \in Renewals :
          (p.memberId = q.memberId /\ p.id # q.id) => p.startDate # q.startDate

\* C6: a stored transaction has its period and a linked period has its
\* transaction, whatever write failed; and the state a renewal leaves has the
\* member row updated to the period written with the payment.
C6_AllOrNothing ==
    /\ \A t \in db.transaction :
          \E p \in db.membershipPeriod : p.transactionId = t.id /\ p.memberId = t.memberId
    /\ \A p \in db.membershipPeriod : p.transactionId # 0 => Linked(p)
    /\ last.op = "renew" =>
          LET p == Newest(last.memberId) IN
          /\ p \in Renewals
          /\ db.member[last.memberId].startDate = p.startDate
          /\ db.member[last.memberId].endDate = p.endDate
          /\ db.member[last.memberId].membershipType = p.packageName
          /\ db.member[last.memberId].isActive

\* C6 witness: a renewal has just committed its payment, period and member update.
C6_Witness ==
    /\ last.op = "renew"
    /\ Cardinality(db.transaction) >= 2
    /\ Cardinality(db.membershipPeriod) = 3

\* C7: a renewal with a regular package on a non-empty ledger starts at midnight
\* of the day after the maximum end when that end is after the renewal instant,
\* and at the renewal instant otherwise.
C7_RegularRenewalStart ==
    \A p \in Renewals :
        (p.duration > 0 /\ Prior(p) # {}) =>
            LET T == MaxEnd(Prior(p)) IN
            p.startDate = IF Gt(T, TxOf(p).transactionDate)
                          THEN [day |-> T.day + 1, ms |-> 0]
                          ELSE TxOf(p).transactionDate

\* C7 witness: one regular renewal started at its own instant because every
\* period had ended, and a later one started the day after the maximum end.
C7_Witness ==
    \E p, q \in Renewals :
        /\ p.duration > 0 /\ q.duration > 0 /\ q.id > p.id
        /\ Prior(p) # {}
        /\ ~Gt(MaxEnd(Prior(p)), TxOf(p).transactionDate)
        /\ p.startDate = TxOf(p).transactionDate
        /\ Gt(MaxEnd(Prior(q)), TxOf(q).transactionDate)
        /\ q.startDate.ms = 0

\* Calendar-month addition that clamps to the last day of the target month.
AddMonthsClamped(t, n) ==
    LET mi == MonthOf(t.day) + n
        dom == IF DateOf(t.day) > DaysInMonth(mi) THEN DaysInMonth(mi) ELSE DateOf(t.day)
    IN  [day |-> MonthStart(mi) + dom - 1, ms |-> t.ms]

\* C8: a regular period ends durationMonths calendar months after its start, on
\* the last day of the target month when the start's day-of-month is missing there.
C8_MonthEndClamped ==
    \A p \in db.membershipPeriod :
        p.duration > 0 => p.endDate = AddMonthsClamped(p.startDate, p.duration)

\* C9: the member row's startDate and endDate are those of the member's most
\* recent period.
C9_MemberCacheInSync ==
    \A id \in DOMAIN db.member :
        PeriodsOf(db, id) # {} =>
            /\ db.member[id].startDate = Newest(id).startDate
            /\ db.member[id].endDate = Newest(id).endDate

\* C10: every stored period has end >= start.
C10_EndNotBeforeStart ==
    \A p \in db.membershipPeriod : Ge(p.endDate, p.startDate)

\* C11: every transaction ever recorded is still stored: the ids 1 .. nextTxId - 1
\* are the ones committed (a rolled-back write gives its id back), and each of
\* them is still a row of the transaction table.
C11_TransactionsPermanent ==
    \A i \in 1..(db.nextTxId - 1) : \E t \in db.transaction : t.id = i

\* C12: a package that is the Day Pass (by name or by zero duration) is still a
\* row after every request, with the name and the durationMonths it had.
C12_DayPassProtected ==
    [][\A k \in db.membershipPackage :
           IsDayPass(k) =>
               \E k2 \in db'.membershipPackage :
                   /\ k2.id = k.id
                   /\ k2.name = k.name
                   /\ k2.durationMonths = k.durationMonths]_vars

\* The seeded Day Pass after an accepted update: repriced and deactivated.
C12_Witness ==
    \E k \in db.membershipPackage :
        k.id = 1 /\ IsDayPass(k) /\ k.price = 30000 /\ ~k.isActive

\* C13: at most one active package has durationMonths = 0.
C13_SingleZeroDuration ==
    Cardinality({k \in db.membershipPackage : k.isActive /\ k.durationMonths = 0}) <= 1

\* The members the status endpoints report on.
Listed == {id \in DOMAIN db.member : db.member[id].isActive}

\* Instants after t, up to ProbeDays days later, at midnight, 22:00 and the last
\* millisecond of the day.
ProbeDays == 40
LaterInstants(t) ==
    {u \in [day : t.day..(t.day + ProbeDays), ms : {0, 79200000, EndOfDayMs}] : Gt(u, t)}

\* C14: for the member as stored, daysRemaining computed now is never smaller
\* than daysRemaining computed at a later instant.
C14_DaysRemainingMonotonic ==
    \A id \in Listed : \A u \in LaterInstants(now) :
        PeriodsOf(db, id) # {} => DaysRemaining(db, id, now) >= DaysRemaining(db, id, u)

\* The rule of the claim: within seven days of the end and daysRemaining <= 7.
ExpiringSoon(id) ==
    Le(db.member[id].endDate, SevenDaysFrom(now)) /\ DaysRemaining(db, id, now) <= 7

\* C15: each of the three endpoints reports a member it does not find expired
\* as 'expiring_soon' exactly when the rule holds, and as 'active' otherwise.
C15_ExpiringSoonRule ==
    \A id \in Listed :
        LET ruled == IF ExpiringSoon(id) THEN "expiring_soon" ELSE "active" IN
        /\ ListStatus(db, id, now) # "expired" => ListStatus(db, id, now) = ruled
        /\ SearchStatus(db, id, now) # "expired" => SearchStatus(db, id, now) = ruled
        /\ CheckinStatus(db, id, now) # "expired" => CheckinStatus(db, id, now) = ruled

\* The Day Pass members whose pass ends today at 23:59:59.999, seen at 22:00.
DayPassEndingToday ==
    {id \in Listed : /\ db.member[id].membershipType = "Day Pass"
                     /\ db.member[id].endDate = EndOfDay(now)
                     /\ now.ms = 79200000}

\* C16 as stated: such a member is reported 'active' by the three endpoints.
C16_DayPassTodayActive ==
    \A id \in DayPassEndingToday :
        /\ ListStatus(db, id, now) = "active"
        /\ SearchStatus(db, id, now) = "active"
        /\ CheckinStatus(db, id, now) = "active"

\* C16: a Day Pass member whose pass ends today at 23:59:59.999, seen at 22:00 of
\* that day, is not reported 'expired' by any of the three endpoints: the status
\* is 'expiring_soon' or 'active'.
C16_DayPassTodayNotExpired ==
    \A id \in DayPassEndingToday :
        /\ ListStatus(db, id, now) \in {"expiring_soon", "active"}
        /\ SearchStatus(db, id, now) \in {"expiring_soon", "active"}
        /\ CheckinStatus(db, id, now) \in {"expiring_soon", "active"}

\* Such a member, reported 'expiring_soon' by the list, the search and check-in.
C16_Witness ==
    \E id \in DayPassEndingToday :
        /\ ListStatus(db, id, now) = "expiring_soon"
        /\ SearchStatus(db, id, now) = "expiring_soon"
        /\ CheckinStatus(db, id, now) = "expiring_soon"
        /\ DaysRemaining(db, id, now) = 1

\* C17: a Day Pass member is not found expired by any endpoint on the calendar
\* day its end date lies in, and a member of another type whose end instant is
\* before now is found expired by every endpoint.
C17_ExpiryRule ==
    \A id \in Listed :
        LET member == db.member[id]
            statuses == {ListStatus(db, id, now), SearchStatus(db, id, now),
                         CheckinStatus(db, id, now)}
        IN  /\ (member.membershipType = "Day Pass" /\ member.endDate.day = now.day)
                   => "expired" \notin statuses
            /\ (member.membershipType # "Day Pass" /\ Lt(member.endDate, now))
                   => statuses = {"expired"}

\* C18: analyzeMembershipPattern([]) returns the zero baseline with all eight
\* fields, averageGapDays among them.
C18_EmptyBaseline ==
    (hist.fetched = <<>> /\ Len(hist.analytics) > 0) =>
        /\ DOMAIN hist.analytics[1] =
               {"totalPeriods", "totalDays", "totalSpent", "averageDuration", "gaps",
                "loyaltyScore", "membershipType", "averageGapDays"}
        /\ hist.analytics[1] =
               [totalPeriods |-> 0, totalDays |-> 0, totalSpent |-> 0,
                averageDuration |-> 0, gaps |-> <<>>, loyaltyScore |-> 0,
                membershipType |-> "new", averageGapDays |-> 0]

\* C19: a second call returns what the first returned, and after a call the
\* caller's array is in the order it was fetched in.
C19_IdempotentUndisturbed ==
    /\ Len(hist.analytics) = 2 => hist.analytics[1] = hist.analytics[2]
    /\ Len(hist.analytics) > 0 => hist.membershipPeriods = hist.fetched

\* The scenario's history: 1 January .. 31 January and 5 February .. 28 February,
\* each period paid with 150000.
IsScenario(s) ==
    /\ Len(s) = 2
    /\ s[1].startDate.day = 35 /\ s[1].endDate.day = 58
    /\ s[2].startDate.day = 0 /\ s[2].endDate.day = 30
    /\ \A i \in 1..2 : s[i].transaction = <<[amount |-> 150000]>>

\* C20: for that history the analytics are totalDays 55, totalSpent 300000, one
\* gap of 4 days, averageGapDays 4, membershipType 'second_time', loyaltyScore 25.
C20_Scenario ==
    (IsScenario(hist.fetched) /\ Len(hist.analytics) > 0) =>
        LET a == hist.analytics[1] IN
        /\ a.totalDays = 55
        /\ a.totalSpent = 300000
        /\ Len(a.gaps) = 1 /\ a.gaps[1].days = 4
        /\ a.averageGapDays = 4
        /\ a.membershipType = "second_time"
        /\ a.loyaltyScore = 25

\* C21: no period with a negative duration and no package with a negative
\* durationMonths is ever stored: the requests that carry one are refused and
\* write nothing.
C21_NegativeDurationRejected ==
    /\ \A p \in db.membershipPeriod : p.duration >= 0
    /\ \A k \in db.membershipPackage : k.durationMonths >= 0

\* C22: when an enrolment has just created a member with a regular product (the
\* member's ledger is the one period it wrote), that period starts at the
\* start_date the request supplied.
C22_EnrolmentStartExact ==
    (last.op \in {"create", "enrol"} /\ last.memberId \in DOMAIN db.member) =>
        \A p \in PeriodsOf(db, last.memberId) :
            (PeriodsOf(db, last.memberId) = {p} /\ p.duration > 0)
                => p.startDate = last.start_date

\* A member just enrolled with a regular product from 1 January 22:00, by either
\* handler.
C22_Witness ==
    /\ last.op \in {"create", "enrol"}
    /\ last.memberId \in DOMAIN db.member
    /\ \E p \in PeriodsOf(db, last.memberId) :
          /\ PeriodsOf(db, last.memberId) = {p} /\ p.duration > 0
          /\ p.startDate = last.start_date
          /\ p.startDate.ms = 79200000

\* C23: in every step each stored period is still stored, field for field as it
\* was, unless its member is no longer a member after the step.
C23_LedgerAppendOnly ==
    [][\A p \in db.membershipPeriod :
           p \in db'.membershipPeriod \/ p.memberId \notin DOMAIN db'.member]_vars

\* A member row rewritten by PUT /members/:id while the ledger holds two periods
\* of that member.
C23_Witness ==
    /\ last.op = "update"
    /\ last.memberId \in DOMAIN db.member
    /\ Cardinality(PeriodsOf(db, last.memberId)) >= 2

\* The period the walk takes first: the earliest start, and among equal starts
\* the later end, as the stable sort leaves rows fetched by end descending.
FirstInWalk(ps) ==
    CHOOSE p \in ps : \A q \in ps :
        \/ Lt(p.startDate, q.startDate)
        \/ /\ p.startDate = q.startDate
           /\ \/ Gt(p.endDate, q.endDate)
              \/ (p.endDate = q.endDate /\ p.id <= q.id)

\* The walk the claim describes: a period still ahead of the cursor counts its
\* whole span, one the cursor is inside counts from the cursor to its end, and
\* the cursor moves to max(cursor, end) after each period.
RECURSIVE CursorWalk(_, _)
CursorWalk(ps, cursor) ==
    IF ps = {} THEN 0
    ELSE LET p == FirstInWalk(ps)
             counted == IF Gt(p.startDate, cursor)
                        THEN CeilDays(p.endDate, p.startDate) + 1
                        ELSE IF Gt(p.endDate, cursor)
                             THEN CeilDays(p.endDate, cursor)
                             ELSE 0
             advanced == IF Gt(p.endDate, cursor) THEN p.endDate ELSE cursor
         IN  counted + CursorWalk(ps \ {p}, advanced)

\* C24: for every member with unexpired periods, the total the handlers compute
\* is the total of the cursor walk over those periods.
C24_CursorAdvances ==
    \A id \in Listed :
        ActivePeriods(db, id, now) # {} =>
            TotalRemainingDays(db, id, now) = CursorWalk(ActivePeriods(db, id, now), now)

\* The millisecond after t.
NextMs(t) ==
    IF t.ms = EndOfDayMs THEN [day |-> t.day + 1, ms |-> 0]
    ELSE [day |-> t.day, ms |-> t.ms + 1]

\* C25: no gap record is emitted for a pair of adjacent periods that overlap or
\* are back to back: every gap record lies between an end and a start that is
\* later than the millisecond right after that end.
C25_NoGapBackToBack ==
    Len(hist.analytics) > 0 =>
        \A i \in 1..Len(hist.analytics[1].gaps) :
            LET g == hist.analytics[1].gaps[i]
            IN  Gt(g.endDate, NextMs(g.startDate))

\* The gap rule of the claim: there is no gap, or the gaps average under 30 days.
ShortGaps(a) == Len(a.gaps) = 0 \/ SumGapDays(a.gaps) < 30 * Len(a.gaps)

\* The score the claim describes, from the fields of the returned object.
ClaimedScore(a) ==
    LET sum == (IF a.totalPeriods >= 3 THEN 30 ELSE 0)
               + (IF ShortGaps(a) THEN 25 ELSE 0)
               + (IF a.averageDuration > 30 THEN 25 ELSE 0)
               + (IF a.totalSpent > 1000000 THEN 20 ELSE 0)
    IN  IF sum < 100 THEN sum ELSE 100

\* C26: for a non-empty history loyaltyScore is the claimed sum, within 0..100.
C26_LoyaltyScore ==
    (Len(hist.analytics) > 0 /\ hist.fetched # <<>>) =>
        /\ hist.analytics[1].loyaltyScore = ClaimedScore(hist.analytics[1])
        /\ hist.analytics[1].loyaltyScore \in 0..100

C28_ExistingPhone ==
    /\ \A p \in db.membershipPeriod :
          /\ (Linked(p) /\ TxOf(p).notes = "additional") =>
                (p.duration = 0 /\ Prior(p) # {})
          /\ (Linked(p) /\ TxOf(p).notes = "initial") => Prior(p) = {}
    /\ \A a, b \in DOMAIN db.member :
          (a # b /\ db.member[a].phone # "none") =>
              db.member[a].phone # db.member[b].phone

\* An enrolment has just sold a Day Pass to the member who had the phone.
C28_Witness ==
    /\ last.op = "enrol" /\ last.memberId \in DOMAIN db.member
    /\ \E p \in PeriodsOf(db, last.memberId) :
          /\ Linked(p) /\ TxOf(p).notes = "additional"
          /\ p.duration = 0 /\ Prior(p) # {}

\* C29: after an enrolment created a brand-new Day Pass member, the dates on
\* the member are the bounds of the Day Pass period created with it.
C29_DayPassDatesRecalculated ==
    (last.op = "enrol" /\ last.memberId \in DOMAIN db.member) =>
        \A p \in PeriodsOf(db, last.memberId) :
            (PeriodsOf(db, last.memberId) = {p} /\ p.duration = 0
                /\ Linked(p) /\ TxOf(p).notes = "initial") =>
                    /\ db.member[last.memberId].startDate = p.startDate
                    /\ db.member[last.memberId].endDate = p.endDate

\* C30: every member GET /members returns for a status filter is displayed
\* with that status.
C30_FilterMatchesStatus ==
    \A id \in Listed : \A status \in StatusFilters :
        ListFilter(db.member[id], status, now) => ListStatus(db, id, now) = status

====
